---- MODULE Spec2Model ----
(***************************************************************************)
(* Model of src/src/services/voiceService.ts: the cascading synthesis      *)
(* controller (synthesizeSpeech), the browser capture pipeline             *)
(* (synthesizeWithBrowser), the voice catalog accessor (listVoices) and    *)
(* the recognition bridge (recognizeSpeech).                               *)
(*                                                                         *)
(* JavaScript values are records [t, v]: t is the type tag ("undefined",   *)
(* "string", "other", "error") and v the characters of a string (one       *)
(* one-character string per element) or the message of an error.           *)
(***************************************************************************)
EXTENDS Integers, Sequences, FiniteSets, TLC

\* ------------------------------------------------------------------ bounds
MaxLen == 2
MaxTime == 400
TickStep == 100
MaxChunks == 1

\* --------------------------------------------------------------- JS values
Undefined == [t |-> "undefined", v |-> <<>>]
Str(s) == [t |-> "string", v |-> s]
NonString == [t |-> "other", v |-> <<>>]
Err(msg) == [t |-> "error", v |-> <<msg>>]

Truthy(x) == \/ x.t = "other"
             \/ x.t = "error"
             \/ x.t = "string" /\ x.v # <<>>

StartsWith(s, p) == /\ Len(s) >= Len(p)
                    /\ SubSeq(s, 1, Len(p)) = p

Includes(s, p) == \E i \in 1..(Len(s) - Len(p) + 1) : SubSeq(s, i, i + Len(p) - 1) = p

DataScheme == <<"d", "a", "t", "a", ":">>
MpegPrefix == <<"d", "a", "t", "a", ":", "a", "u", "d", "i", "o", "/", "m", "p", "e", "g", ";", "b", "a", "s", "e", "6", "4", ",">>
WavPrefix == <<"d", "a", "t", "a", ":", "a", "u", "d", "i", "o", "/", "w", "a", "v", ";", "b", "a", "s", "e", "6", "4", ",">>
Placeholder == <<"y", "o", "u", "r", "_">>

\* ------------------------------------------------------------ input sets
Calls == {1, 2}

Texts == {t \in UNION {[1..n -> {"a"}] : n \in 1..MaxLen} : TRUE}

RawAudio == <<"Q", "U", "J", "D">>
DataAudio == DataScheme \o <<"a", "u", "d", "i", "o", "/", "o", "g", "g", ";", "b", "a", "s", "e", "6", "4", ",", "Q", "Q", "=", "=">>
AlmostDataAudio == <<"d", "a", "t", "a", "Q", "U">>

AudioValues == {Undefined, Str(<<>>), Str(RawAudio), Str(DataAudio), Str(AlmostDataAudio), NonString}

\* what the awaited api.post(...) of Provider A can settle to
ProviderAOutcomes ==
    {[kind |-> "reject", hasData |-> FALSE, success |-> FALSE, audio |-> Undefined],
     [kind |-> "response", hasData |-> FALSE, success |-> FALSE, audio |-> Undefined]}
    \cup {[kind |-> "response", hasData |-> TRUE, success |-> s, audio |-> a] :
             s \in BOOLEAN, a \in AudioValues}

\* what the awaited response.json() of Provider B can settle to
ProviderBOutcomes ==
    {[kind |-> "reject", hasData |-> FALSE, success |-> FALSE, audio |-> Undefined],
     [kind |-> "response", hasData |-> FALSE, success |-> FALSE, audio |-> Undefined]}
    \cup {[kind |-> "response", hasData |-> TRUE, success |-> s, audio |-> a] :
             s \in BOOLEAN, a \in AudioValues \ {NonString}}

ValidUrl == <<"h", "t", "t", "p", "s", ":", "/", "/", "x">>
PlaceholderUrl == <<"h", "t", "t", "p", "s", ":", "/", "/", "y", "o", "u", "r", "_", "p">>
ValidKey == <<"e", "y", "J">>
PlaceholderKey == <<"y", "o", "u", "r", "_", "k", "e", "y">>

UrlValues == {Undefined, Str(<<>>), Str(ValidUrl), Str(PlaceholderUrl), NonString}
KeyValues == {Undefined, Str(<<>>), Str(ValidKey), Str(PlaceholderKey), NonString}

VARIABLES
    supabaseUrl,        \* import.meta.env.VITE_SUPABASE_URL
    supabaseAnonKey,    \* import.meta.env.VITE_SUPABASE_ANON_KEY
    speechSynthesis,    \* 'speechSynthesis' in window
    now,                \* the host clock
    call,               \* call[c]: one invocation of synthesizeSpeech
    session,            \* session[c]: the capture session of that invocation
    remoteVoices,       \* what api.get('/agent/voice/voices') settles to
    voicesCall,         \* one invocation of listVoices
    speechRecognitionApi, \* which recognition constructor window defines
    recognition         \* one invocation of recognizeSpeech

vars == <<supabaseUrl, supabaseAnonKey, speechSynthesis, now, call, session,
          remoteVoices, voicesCall, speechRecognitionApi, recognition>>
env == <<supabaseUrl, supabaseAnonKey, speechSynthesis>>
aux == <<remoteVoices, voicesCall, speechRecognitionApi, recognition>>
synth == <<supabaseUrl, supabaseAnonKey, speechSynthesis, now, call, session>>

\* ------------------------------------------------- capture pipeline: data
\* the bytes of the k-th fragment the recorder of session c hands to
\* ondataavailable
FragmentBytes(c, k) == [i \in 1..k |-> 64 + 16 * (c - 1) + k + i - 1]

RECURSIVE Concat(_)
Concat(parts) == IF parts = <<>> THEN <<>> ELSE Head(parts) \o Concat(Tail(parts))

Base64Alphabet == <<"A", "B", "C", "D", "E", "F", "G", "H", "I", "J", "K", "L", "M", "N", "O", "P", "Q", "R", "S", "T", "U", "V", "W", "X", "Y", "Z", "a", "b", "c", "d", "e", "f", "g", "h", "i", "j", "k", "l", "m", "n", "o", "p", "q", "r", "s", "t", "u", "v", "w", "x", "y", "z", "0", "1", "2", "3", "4", "5", "6", "7", "8", "9", "+", "/">>

B64Char(n) == Base64Alphabet[n + 1]

RECURSIVE Base64(_)
Base64(b) ==
    IF Len(b) = 0 THEN <<>>
    ELSE IF Len(b) = 1 THEN
        <<B64Char(b[1] \div 4), B64Char((b[1] % 4) * 16), "=", "=">>
    ELSE IF Len(b) = 2 THEN
        <<B64Char(b[1] \div 4), B64Char((b[1] % 4) * 16 + b[2] \div 16),
          B64Char((b[2] % 16) * 4), "=">>
    ELSE
        <<B64Char(b[1] \div 4), B64Char((b[1] % 4) * 16 + b[2] \div 16),
          B64Char((b[2] % 16) * 4 + b[3] \div 64), B64Char(b[3] % 64)>>
        \o Base64(SubSeq(b, 4, Len(b)))

\* reader.readAsDataURL(new Blob(chunks, {type: 'audio/wav'}))
ReadAsDataURL(blob) == Str(WavPrefix \o Base64(blob))

\* ------------------------------------------- capture pipeline: operations
NoSession ==
    [started |-> FALSE, text |-> <<>>, promise |-> "pending", value |-> Undefined,
     audioContext |-> "none", mediaRecorder |-> "none", chunks |-> <<>>,
     emitted |-> <<>>, utterance |-> "none", timer |-> "none", armedAt |-> 0,
     delay |-> 0, stopTask |-> FALSE, reader |-> "none", blob |-> <<>>,
     stopCalls |-> 0, closeCalls |-> 0, stops |-> 0, stoppedBy |-> "none",
     uncaught |-> FALSE, settledAt |-> 0, recorderAtSpeak |-> "none"]

\* resolve(v) / reject(e) of the pending result: only the first call settles
Resolve(s, v) ==
    IF s.promise = "pending"
    THEN [s EXCEPT !.promise = "resolved", !.value = v, !.settledAt = now]
    ELSE s

Reject(s, e) ==
    IF s.promise = "pending"
    THEN [s EXCEPT !.promise = "rejected", !.value = e, !.settledAt = now]
    ELSE s

\* variant: a shorter estimate per character
TimeoutDelay_Short(text) == Len(text) * 10

\* the timeout passed to setTimeout
TimeoutDelay(text) == Len(text) * 100

\* new AudioContext(), createMediaStreamDestination(), new MediaRecorder(...)
OpenRecorder(s) == [s EXCEPT !.audioContext = "running", !.mediaRecorder = "inactive"]

\* mediaRecorder.start()
StartRecording(s) == [s EXCEPT !.mediaRecorder = "recording"]

\* window.speechSynthesis.speak(utterance); recorderAtSpeak keeps the
\* recorder state the utterance started under
Speak(s) == [s EXCEPT !.utterance = "speaking", !.recorderAtSpeak = s.mediaRecorder]

\* setTimeout(..., text.length * 100)
ArmTimeout(s, text) ==
    [s EXCEPT !.timer = "armed", !.armedAt = now, !.delay = TimeoutDelay(text)]

\* variant: the utterance is spoken before the recorder is started
SynthesizeWithBrowser_SpeakFirst(text) ==
    LET s0 == [NoSession EXCEPT !.started = TRUE, !.text = text]
    IN  IF ~speechSynthesis
        THEN Reject(s0, Err("Speech synthesis not supported in this browser"))
        ELSE ArmTimeout(StartRecording(Speak(OpenRecorder(s0))), text)

\* the executor of the promise returned by synthesizeWithBrowser(text)
SynthesizeWithBrowser(text) ==
    LET s0 == [NoSession EXCEPT !.started = TRUE, !.text = text]
    IN  IF ~speechSynthesis
        THEN Reject(s0, Err("Speech synthesis not supported in this browser"))
        ELSE ArmTimeout(Speak(StartRecording(OpenRecorder(s0))), text)

\* variant: only the latest fragment is kept
OnDataAvailable_KeepLast(s, data) ==
    [s EXCEPT !.emitted = Append(@, data),
              !.chunks = IF Len(data) > 0 THEN <<data>> ELSE @]

\* mediaRecorder.ondataavailable
OnDataAvailable(s, data) ==
    [s EXCEPT !.emitted = Append(@, data),
              !.chunks = IF Len(data) > 0 THEN Append(@, data) ELSE @]

\* mediaRecorder.stop() on a recording recorder
RecorderStop(s, by) ==
    [s EXCEPT !.mediaRecorder = "inactive", !.stopTask = TRUE,
              !.stopCalls = @ + 1, !.stops = @ + 1, !.stoppedBy = by]

\* audioContext.close(): on a closed context the returned promise rejects
\* and nobody handles the rejection
ContextClose(s) ==
    IF s.audioContext = "running"
    THEN [s EXCEPT !.audioContext = "closed", !.closeCalls = @ + 1]
    ELSE [s EXCEPT !.closeCalls = @ + 1, !.uncaught = TRUE]

\* utterance.onend: no state check.  On an inactive recorder stop() either
\* throws InvalidStateError (hostThrows) or returns, depending on the host.
OnEnd(s, hostThrows) ==
    LET e == [s EXCEPT !.utterance = "ended"]
    IN  IF e.mediaRecorder = "recording"
        THEN ContextClose(RecorderStop(e, "onend"))
        ELSE IF hostThrows
        THEN [e EXCEPT !.stopCalls = @ + 1, !.uncaught = TRUE]
        ELSE ContextClose([e EXCEPT !.stopCalls = @ + 1])

\* variant: the timeout stops the recorder and leaves the context open
OnTimeout_NoClose(s) ==
    LET f == [s EXCEPT !.timer = "fired"]
    IN  IF f.mediaRecorder = "recording"
        THEN RecorderStop(f, "timeout")
        ELSE f

\* the setTimeout callback
OnTimeout(s) ==
    LET f == [s EXCEPT !.timer = "fired"]
    IN  IF f.mediaRecorder = "recording"
        THEN ContextClose(RecorderStop(f, "timeout"))
        ELSE f

\* mediaRecorder.onstop
OnStop(s) ==
    [s EXCEPT !.stopTask = FALSE, !.blob = Concat(s.chunks), !.reader = "loading"]

\* reader.onloadend after a successful read
OnLoadEnd(s) == Resolve([s EXCEPT !.reader = "done"], ReadAsDataURL(s.blob))

\* reader.onerror = reject, then loadend fires with reader.result = null
OnReaderError(s) ==
    Resolve(Reject([s EXCEPT !.reader = "error"], Err("FileReader error")), Undefined)

\* -------------------------------------------- capture pipeline: actions
\* variant: one chunks array shared by all sessions
DataAvailable_SharedChunks(c) ==
    /\ session[c].mediaRecorder = "recording"
    /\ Len(session[c].emitted) < MaxChunks
    /\ \E data \in {<<>>, FragmentBytes(c, Len(session[c].emitted) + 1)} :
          session' = [d \in Calls |->
                        IF d = c THEN OnDataAvailable(session[d], data)
                        ELSE [session[d] EXCEPT !.chunks =
                                 IF Len(data) > 0 THEN Append(@, data) ELSE @]]
    /\ UNCHANGED <<aux, env, now, call>>

DataAvailable(c) ==
    /\ session[c].mediaRecorder = "recording"
    /\ Len(session[c].emitted) < MaxChunks
    /\ \E data \in {<<>>, FragmentBytes(c, Len(session[c].emitted) + 1)} :
          session' = [session EXCEPT ![c] = OnDataAvailable(@, data)]
    /\ UNCHANGED <<aux, env, now, call>>

UtteranceEnd(c) ==
    /\ session[c].utterance = "speaking"
    /\ \E hostThrows \in BOOLEAN :
          session' = [session EXCEPT ![c] = OnEnd(@, hostThrows)]
    /\ UNCHANGED <<aux, env, now, call>>

TimeoutFire(c) ==
    /\ session[c].timer = "armed"
    /\ now >= session[c].armedAt + session[c].delay
    /\ session' = [session EXCEPT ![c] = OnTimeout(@)]
    /\ UNCHANGED <<aux, env, now, call>>

\* the task queued by stop(): fire dataavailable with the rest, then stop
RecorderStopTask(c) ==
    /\ session[c].stopTask
    /\ \E data \in {<<>>, FragmentBytes(c, Len(session[c].emitted) + 1)} :
          session' = [session EXCEPT ![c] = OnStop(OnDataAvailable(@, data))]
    /\ UNCHANGED <<aux, env, now, call>>

ReaderLoadEnd(c) ==
    /\ session[c].reader = "loading"
    /\ session' = [session EXCEPT ![c] = OnLoadEnd(@)]
    /\ UNCHANGED <<aux, env, now, call>>

ReaderError(c) ==
    /\ session[c].reader = "loading"
    /\ session' = [session EXCEPT ![c] = OnReaderError(@)]
    /\ UNCHANGED <<aux, env, now, call>>

\* the host clock advances; it is tracked while a capture result is pending
Tick ==
    /\ \E c \in Calls : session[c].started /\ session[c].promise = "pending"
    /\ now + TickStep <= MaxTime
    /\ now' = now + TickStep
    /\ UNCHANGED <<aux, env, call, session>>

\* ---------------------------------------------- controller: operations
NoCall ==
    [pc |-> "idle", text |-> <<>>, tierA |-> "none", tierB |-> "none",
     respA |-> Undefined, respB |-> Undefined, result |-> Undefined,
     order |-> <<>>, captureCalls |-> 0, outerCatch |-> FALSE]

\* the test of Provider A's awaited response: "ok", "soft" (falls out of the
\* if) or "hard" (a throw caught by the inner catch)
ProviderAResult(out) ==
    IF out.kind = "reject" THEN "hard"
    ELSE IF ~out.hasData THEN "hard"
    ELSE IF out.success /\ Truthy(out.audio)
         THEN IF out.audio.t = "string" THEN "ok" ELSE "hard"
         ELSE "soft"

\* variant: the payload is returned as received
NormalizeA_NoWrap(audio) == audio

\* the value returned on Provider A's success
NormalizeA(audio) ==
    IF ~StartsWith(audio.v, DataScheme)
    THEN Str(MpegPrefix \o audio.v)
    ELSE audio

\* the test of Provider B's parsed body
ProviderBResult(out) ==
    IF out.kind = "reject" THEN "hard"
    ELSE IF ~out.hasData THEN "hard"
    ELSE IF out.success /\ Truthy(out.audio) THEN "ok"
    ELSE "soft"

\* the value returned on Provider B's success
NormalizeB(audio) == Str(MpegPrefix \o audio.v)

\* variant: the credential is not tested for presence
ProviderBConfigured_NoKeyTest(url, key) ==
    IF ~Truthy(url) THEN "no"
    ELSE IF url.t # "string" THEN "throws"
    ELSE IF Includes(url.v, Placeholder) THEN "no"
    ELSE IF key.t # "string" THEN "throws"
    ELSE IF Includes(key.v, Placeholder) THEN "no"
    ELSE "yes"

\* variant: the placeholder test is applied to the endpoint only
ProviderBConfigured_UrlOnly(url, key) ==
    IF ~Truthy(url) THEN "no"
    ELSE IF ~Truthy(key) THEN "no"
    ELSE IF url.t # "string" THEN "throws"
    ELSE IF Includes(url.v, Placeholder) THEN "no"
    ELSE "yes"

\* supabaseUrl && supabaseAnonKey && !supabaseUrl.includes('your_')
\*   && !supabaseAnonKey.includes('your_'), evaluated left to right;
\* "throws" when .includes is read off a truthy non-string
ProviderBConfigured(url, key) ==
    IF ~Truthy(url) THEN "no"
    ELSE IF ~Truthy(key) THEN "no"
    ELSE IF url.t # "string" THEN "throws"
    ELSE IF Includes(url.v, Placeholder) THEN "no"
    ELSE IF key.t # "string" THEN "throws"
    ELSE IF Includes(key.v, Placeholder) THEN "no"
    ELSE "yes"

\* variant: the capture promise is awaited inside the try, so the outer
\* catch sees its rejection and starts the capture again
Delegate_Retry(c, cr) ==
    LET first == SynthesizeWithBrowser(cr.text)
        n == IF first.promise = "rejected" THEN 2 ELSE 1
    IN  /\ call' = [call EXCEPT ![c] = [cr EXCEPT !.pc = "delegated",
                                                  !.captureCalls = @ + n,
                                                  !.outerCatch = (n = 2) \/ @,
                                                  !.order = IF n = 2
                                                            THEN @ \o <<"capture", "capture">>
                                                            ELSE Append(@, "capture")]]
        /\ session' = [session EXCEPT ![c] = first]

\* return synthesizeWithBrowser(text): the call's promise follows the session's
Delegate(c, cr) ==
    /\ call' = [call EXCEPT ![c] = [cr EXCEPT !.pc = "delegated",
                                              !.captureCalls = @ + 1,
                                              !.order = Append(@, "capture")]]
    /\ session' = [session EXCEPT ![c] = SynthesizeWithBrowser(cr.text)]

\* variant: Provider B is requested but not awaited before the capture starts
AfterProviderA_Race(c, cr) ==
    IF ProviderBConfigured(supabaseUrl, supabaseAnonKey) = "yes"
    THEN Delegate(c, [cr EXCEPT !.tierB = "pending", !.order = Append(@, "B")])
    ELSE Delegate(c, [cr EXCEPT !.tierB = "skipped"])

\* the code after Provider A's try/catch, up to the next await or return
AfterProviderA(c, cr) ==
    LET cfg == ProviderBConfigured(supabaseUrl, supabaseAnonKey)
    IN  IF cfg = "yes"
        THEN /\ call' = [call EXCEPT ![c] = [cr EXCEPT !.pc = "awaitFetch",
                                                       !.tierB = "pending",
                                                       !.order = Append(@, "B")]]
             /\ UNCHANGED session
        ELSE IF cfg = "no"
        THEN Delegate(c, [cr EXCEPT !.tierB = "skipped"])
        ELSE Delegate(c, [cr EXCEPT !.tierB = "skipped", !.outerCatch = TRUE])

\* the code after Provider B's try/catch
AfterProviderB(c, cr) == Delegate(c, cr)

\* variant: the catch block rethrows
CatchProviderA_Rethrow(c, cr) ==
    /\ call' = [call EXCEPT ![c] = [cr EXCEPT !.pc = "threw",
                                              !.result = Err("Provider A failed")]]
    /\ UNCHANGED session

\* catch (error) { console.warn(...) } around Provider A: swallow, go on
CatchProviderA(c, cr) == AfterProviderA(c, cr)

\* variant: a thrown Provider B goes on differently from a soft failure
CatchProviderB_NoCapture(c, cr) ==
    /\ call' = [call EXCEPT ![c] = [cr EXCEPT !.pc = "returned", !.result = Undefined]]
    /\ UNCHANGED session

\* catch (error) { console.warn(...) } around Provider B: swallow, go on
CatchProviderB(c, cr) == AfterProviderB(c, cr)

\* ------------------------------------------------- controller: actions
SynthesizeSpeech(c) ==
    /\ call[c].pc = "idle"
    /\ \E text \in Texts :
          call' = [call EXCEPT ![c] = [@ EXCEPT !.pc = "awaitA", !.text = text,
                                                !.tierA = "pending",
                                                !.order = <<"A">>]]
    /\ UNCHANGED <<aux, env, now, session>>

\* await api.post(...) settles
ProviderASettle(c) ==
    /\ call[c].pc = "awaitA"
    /\ \E out \in ProviderAOutcomes :
          LET r == ProviderAResult(out)
          IN  IF r = "ok"
              THEN /\ call' = [call EXCEPT ![c] = [@ EXCEPT !.pc = "returned",
                                                            !.tierA = "ok",
                                                            !.respA = out.audio,
                                                            !.result = NormalizeA(out.audio)]]
                   /\ UNCHANGED session
              ELSE IF r = "soft"
              THEN AfterProviderA(c, [call[c] EXCEPT !.tierA = r])
              ELSE CatchProviderA(c, [call[c] EXCEPT !.tierA = r])
    /\ UNCHANGED <<aux, env, now>>

\* await fetch(...) settles
ProviderBFetchSettle(c) ==
    /\ call[c].pc = "awaitFetch"
    /\ \/ /\ call' = [call EXCEPT ![c] = [@ EXCEPT !.pc = "awaitJson"]]
          /\ UNCHANGED session
       \/ CatchProviderB(c, [call[c] EXCEPT !.tierB = "hard"])
    /\ UNCHANGED <<aux, env, now>>

\* await response.json() settles
ProviderBJsonSettle(c) ==
    /\ call[c].pc = "awaitJson"
    /\ \E out \in ProviderBOutcomes :
          LET r == ProviderBResult(out)
          IN  IF r = "ok"
              THEN /\ call' = [call EXCEPT ![c] = [@ EXCEPT !.pc = "returned",
                                                            !.tierB = "ok",
                                                            !.respB = out.audio,
                                                            !.result = NormalizeB(out.audio)]]
                   /\ UNCHANGED session
              ELSE IF r = "soft"
              THEN AfterProviderB(c, [call[c] EXCEPT !.tierB = r])
              ELSE CatchProviderB(c, [call[c] EXCEPT !.tierB = r])
    /\ UNCHANGED <<aux, env, now>>

\* the promise returned by synthesizeSpeech: resolved by a return, rejected
\* by a throw that leaves the function, following the capture promise once
\* that has been returned
CallState(c) ==
    IF call[c].pc = "returned" THEN "resolved"
    ELSE IF call[c].pc = "threw" THEN "rejected"
    ELSE IF call[c].pc = "delegated" THEN session[c].promise
    ELSE "pending"

CallValue(c) ==
    IF call[c].pc \in {"returned", "threw"} THEN call[c].result
    ELSE IF call[c].pc = "delegated" THEN session[c].value
    ELSE Undefined

\* --------------------------------------------------------- listVoices
MaxVoices == 3

Voice(id, name) == [voice_id |-> id, name |-> name]

RemoteVoiceSet == {Voice("r1", "Remote One"), Voice("r2", "Remote Two"), Voice("r3", "Remote Three")}

RemoteVoiceLists == UNION {[1..n -> RemoteVoiceSet] : n \in 0..MaxVoices}

\* kind "reject": api.get throws; hasData FALSE: response.data is undefined;
\* hasVoices FALSE: response.data.voices is missing
VoicesOutcomes ==
    {[kind |-> "reject", hasData |-> FALSE, hasVoices |-> FALSE, voices |-> <<>>],
     [kind |-> "response", hasData |-> FALSE, hasVoices |-> FALSE, voices |-> <<>>],
     [kind |-> "response", hasData |-> TRUE, hasVoices |-> FALSE, voices |-> <<>>]}
    \cup {[kind |-> "response", hasData |-> TRUE, hasVoices |-> TRUE, voices |-> l] :
             l \in RemoteVoiceLists}

getMockVoices ==
    <<Voice("21m00Tcm4TlvDq8ikWAM", "Rachel"),
      Voice("AZnzlk1XvdvUeBnXmlld", "Domi"),
      Voice("EXAVITQu4vr4xnSDxMaL", "Bella"),
      Voice("ErXwobaYiN019PkySvjV", "Antoni")>>

\* variant: the length test is dropped
RemoteVoicesUsable_NoLength(out) ==
    /\ out.kind = "response"
    /\ out.hasData
    /\ out.hasVoices

\* response.data.voices && response.data.voices.length > 0
RemoteVoicesUsable(out) ==
    /\ out.kind = "response"
    /\ out.hasData
    /\ out.hasVoices
    /\ Len(out.voices) > 0

\* the value listVoices returns for a settled api.get
ListVoicesResult(out) ==
    IF RemoteVoicesUsable(out) THEN out.voices ELSE getMockVoices

NoVoicesCall == [pc |-> "idle", promise |-> "pending", result |-> <<>>]

ListVoices ==
    /\ voicesCall.pc = "idle"
    /\ voicesCall' = [voicesCall EXCEPT !.pc = "awaitGet"]
    /\ UNCHANGED <<synth, remoteVoices, speechRecognitionApi, recognition>>

\* await api.get(...) settles
VoicesSettle ==
    /\ voicesCall.pc = "awaitGet"
    /\ voicesCall' = [pc |-> "returned", promise |-> "resolved",
                      result |-> ListVoicesResult(remoteVoices)]
    /\ UNCHANGED <<synth, remoteVoices, speechRecognitionApi, recognition>>

\* ---------------------------------------------------- recognizeSpeech
MaxEvents == 2

Transcripts == {"hello", "world"}
ErrorCodes == {"no-speech", "network"}

\* event.results: a list of results, each a list of alternatives
ResultLists ==
    {<<<<a>>>> : a \in Transcripts}
    \cup {<<<<a, b>>>> : a \in Transcripts, b \in Transcripts}
    \cup {<<<<a>>, <<b>>>> : a \in Transcripts, b \in Transcripts}

RecognitionEvents ==
    {[type |-> "result", results |-> r, error |-> ""] : r \in ResultLists}
    \cup {[type |-> "error", results |-> <<>>, error |-> e] : e \in ErrorCodes}

RecognitionError(code) == [t |-> "error", v |-> <<"Speech recognition error: ", code>>]
UnsupportedRecognition == Err("Speech recognition not supported in this browser")

NoRecognition ==
    [pc |-> "idle", promise |-> "pending", value |-> Undefined,
     created |-> FALSE, started |-> FALSE, lang |-> "", interimResults |-> TRUE,
     maxAlternatives |-> 0, events |-> <<>>]

\* window.SpeechRecognition || window.webkitSpeechRecognition
SpeechRecognitionCtor ==
    IF speechRecognitionApi = "none" THEN Undefined ELSE NonString

\* variant: the session is constructed before the capability is tested
RecognizeExecutor_LateCheck(r) ==
    IF ~Truthy(SpeechRecognitionCtor)
    THEN [r EXCEPT !.pc = "settled", !.promise = "rejected",
                   !.value = UnsupportedRecognition, !.created = TRUE]
    ELSE [r EXCEPT !.pc = "listening", !.created = TRUE, !.lang = "en-US",
                   !.interimResults = FALSE, !.maxAlternatives = 1,
                   !.started = TRUE]

\* the executor of the promise returned by recognizeSpeech
RecognizeExecutor(r) ==
    IF ~Truthy(SpeechRecognitionCtor)
    THEN [r EXCEPT !.pc = "settled", !.promise = "rejected",
                   !.value = UnsupportedRecognition]
    ELSE [r EXCEPT !.pc = "listening", !.created = TRUE, !.lang = "en-US",
                   !.interimResults = FALSE, !.maxAlternatives = 1,
                   !.started = TRUE]

\* variant: every event settles the result again
OnRecognitionEvent_LastWins(r, ev) ==
    LET logged == [r EXCEPT !.events = Append(@, ev)]
    IN  IF ev.type = "result"
        THEN [logged EXCEPT !.promise = "resolved",
                            !.value = Str(<<ev.results[1][1]>>)]
        ELSE [logged EXCEPT !.promise = "rejected",
                            !.value = RecognitionError(ev.error)]

\* recognition.onresult / recognition.onerror; a settled promise stays as is
OnRecognitionEvent(r, ev) ==
    LET logged == [r EXCEPT !.events = Append(@, ev)]
    IN  IF r.promise # "pending" THEN logged
        ELSE IF ev.type = "result"
        THEN [logged EXCEPT !.promise = "resolved",
                            !.value = Str(<<ev.results[1][1]>>)]
        ELSE [logged EXCEPT !.promise = "rejected",
                            !.value = RecognitionError(ev.error)]

RecognizeSpeech ==
    /\ recognition.pc = "idle"
    /\ recognition' = RecognizeExecutor(recognition)
    /\ UNCHANGED <<synth, remoteVoices, voicesCall, speechRecognitionApi>>

RecognitionEvent ==
    /\ recognition.started
    /\ Len(recognition.events) < MaxEvents
    /\ \E ev \in RecognitionEvents :
          recognition' = OnRecognitionEvent(recognition, ev)
    /\ UNCHANGED <<synth, remoteVoices, voicesCall, speechRecognitionApi>>

\* ------------------------------------------------------- specification
Init ==
    /\ supabaseUrl \in UrlValues
    /\ supabaseAnonKey \in KeyValues
    /\ speechSynthesis \in BOOLEAN
    /\ now = 0
    /\ call = [c \in Calls |-> IF c = 1 THEN NoCall ELSE [NoCall EXCEPT !.pc = "unused"]]
    /\ session = [c \in Calls |-> NoSession]
    /\ remoteVoices = [kind |-> "reject", hasData |-> FALSE, hasVoices |-> FALSE, voices |-> <<>>]
    /\ voicesCall = [NoVoicesCall EXCEPT !.pc = "unused"]
    /\ speechRecognitionApi = "none"
    /\ recognition = [NoRecognition EXCEPT !.pc = "unused"]

Next ==
    \/ \E c \in Calls : SynthesizeSpeech(c)
    \/ \E c \in Calls : ProviderASettle(c)
    \/ \E c \in Calls : ProviderBFetchSettle(c)
    \/ \E c \in Calls : ProviderBJsonSettle(c)
    \/ \E c \in Calls : DataAvailable(c)
    \/ \E c \in Calls : UtteranceEnd(c)
    \/ \E c \in Calls : TimeoutFire(c)
    \/ \E c \in Calls : RecorderStopTask(c)
    \/ \E c \in Calls : ReaderLoadEnd(c)
    \/ \E c \in Calls : ReaderError(c)
    \/ Tick

Spec == Init /\ [][Next]_vars

\* the synthesis side at rest, for the specifications of the other services
SynthUnused ==
    /\ supabaseUrl = Undefined
    /\ supabaseAnonKey = Undefined
    /\ speechSynthesis = FALSE
    /\ now = 0
    /\ call = [c \in Calls |-> [NoCall EXCEPT !.pc = "unused"]]
    /\ session = [c \in Calls |-> NoSession]

InitVoices ==
    /\ SynthUnused
    /\ remoteVoices \in VoicesOutcomes
    /\ voicesCall = NoVoicesCall
    /\ speechRecognitionApi = "none"
    /\ recognition = [NoRecognition EXCEPT !.pc = "unused"]

NextVoices == ListVoices \/ VoicesSettle

\* every pending host task eventually runs and the clock advances; the
\* utterance's completion event and further fragments are not guaranteed
Fairness ==
    /\ WF_vars(Tick)
    /\ \A c \in Calls :
          /\ WF_vars(ProviderASettle(c))
          /\ WF_vars(ProviderBFetchSettle(c))
          /\ WF_vars(ProviderBJsonSettle(c))
          /\ WF_vars(TimeoutFire(c))
          /\ WF_vars(RecorderStopTask(c))
          /\ WF_vars(ReaderLoadEnd(c) \/ ReaderError(c))

FairSpec == Spec /\ Fairness

\* two synthesizeSpeech calls in flight at once, both awaiting Provider A,
\* with texts of different lengths; Provider B is unconfigured
InitTwo ==
    /\ supabaseUrl = Undefined
    /\ supabaseAnonKey = Undefined
    /\ speechSynthesis = TRUE
    /\ now = MaxTime - 2 * TickStep
    /\ call = [c \in Calls |-> [NoCall EXCEPT !.pc = "awaitA",
                                              !.text = [i \in 1..c |-> "a"],
                                              !.tierA = "pending",
                                              !.order = <<"A">>]]
    /\ session = [c \in Calls |-> NoSession]
    /\ remoteVoices = [kind |-> "reject", hasData |-> FALSE, hasVoices |-> FALSE, voices |-> <<>>]
    /\ voicesCall = [NoVoicesCall EXCEPT !.pc = "unused"]
    /\ speechRecognitionApi = "none"
    /\ recognition = [NoRecognition EXCEPT !.pc = "unused"]

NextTwo ==
    \/ \E c \in Calls : ProviderASettle(c)
    \/ \E c \in Calls : DataAvailable(c)
    \/ \E c \in Calls : UtteranceEnd(c)
    \/ \E c \in Calls : TimeoutFire(c)
    \/ \E c \in Calls : RecorderStopTask(c)
    \/ \E c \in Calls : ReaderLoadEnd(c)
    \/ \E c \in Calls : ReaderError(c)
    \/ Tick

SpecTwo == InitTwo /\ [][NextTwo]_vars

SpecVoices == InitVoices /\ [][NextVoices]_vars

InitRecognition ==
    /\ SynthUnused
    /\ remoteVoices = [kind |-> "reject", hasData |-> FALSE, hasVoices |-> FALSE, voices |-> <<>>]
    /\ voicesCall = [NoVoicesCall EXCEPT !.pc = "unused"]
    /\ speechRecognitionApi \in {"none", "SpeechRecognition", "webkitSpeechRecognition"}
    /\ recognition = NoRecognition

NextRecognition == RecognizeSpeech \/ RecognitionEvent

SpecRecognition == InitRecognition /\ [][NextRecognition]_vars

\* ================================================================ claims
IsAudioResource(x) == x.t = "string" /\ StartsWith(x.v, DataScheme)

Missing(x) == x.t = "undefined" \/ x = Str(<<>>)
HasPlaceholder(x) == x.t = "string" /\ Includes(x.v, Placeholder)

\* C1: with on-device synthesis present, every synthesizeSpeech call
\* eventually resolves with an audio resource and never rejects, whatever
\* Provider A and Provider B do, also when the completion event never fires
\* and when the read-back reports an error.
C1_AlwaysResolves ==
    \A c \in Calls :
       /\ [](speechSynthesis => CallState(c) # "rejected")
       /\ (speechSynthesis /\ call[c].pc = "awaitA")
             ~> (CallState(c) = "resolved" /\ IsAudioResource(CallValue(c)))

\* C2: when Provider A answers success with a raw payload, the call returns
\* exactly 'data:audio/mpeg;base64,' followed by the payload, and neither
\* Provider B nor the capture pipeline is invoked.
C2_ProviderARawPayload ==
    \A c \in Calls :
       (call[c].tierA = "ok" /\ ~StartsWith(call[c].respA.v, DataScheme))
          => /\ CallState(c) = "resolved"
             /\ CallValue(c) = Str(MpegPrefix \o call[c].respA.v)
             /\ call[c].tierB = "none"
             /\ call[c].order = <<"A">>
             /\ call[c].captureCalls = 0
             /\ ~session[c].started

C2_Witness ==
    \E c \in Calls :
       /\ call[c].tierA = "ok"
       /\ call[c].respA = Str(RawAudio)
       /\ CallValue(c) = Str(MpegPrefix \o RawAudio)

\* C3: when Provider A rejects and Provider B is unconfigured (endpoint or
\* credential missing, or either holding the placeholder marker), the capture
\* pipeline is invoked directly with the request text and Provider B is
\* never called.
C3_Unconfigured ==
    \/ Missing(supabaseUrl)
    \/ Missing(supabaseAnonKey)
    \/ HasPlaceholder(supabaseUrl)
    \/ HasPlaceholder(supabaseAnonKey)

C3_UnconfiguredGoesToCapture ==
    \A c \in Calls :
       (call[c].tierA = "hard" /\ C3_Unconfigured)
          => /\ call[c].tierB = "skipped"
             /\ call[c].order = <<"A", "capture">>
             /\ call[c].captureCalls = 1
             /\ session[c].started
             /\ session[c].text = call[c].text

C3_Witness ==
    \E c \in Calls :
       /\ call[c].tierA = "hard"
       /\ supabaseUrl = Str(ValidUrl)
       /\ supabaseAnonKey = Str(PlaceholderKey)
       /\ session[c].started
       /\ session[c].mediaRecorder = "recording"

\* C4 (as stated): in a capture session whose completion event never
\* fires, the result resolves at or before L * 100 time units after the
\* timeout was armed, and the recorder went from recording to stopped
\* exactly once.
C4_ResolvesByDeadline ==
    \A c \in Calls :
       (session[c].timer # "none" /\ session[c].utterance = "speaking"
          /\ session[c].promise = "resolved")
          => /\ session[c].settledAt <= session[c].armedAt + Len(session[c].text) * 100
             /\ session[c].stops = 1

\* C4 (amended): in a capture session whose completion event never fires,
\* the recorder is stopped by the timeout handler, no earlier than L * 100
\* time units after the timeout was armed; the result settles only after
\* that stop, so never before L * 100, and the recorder went from recording
\* to stopped exactly once.
C4_StopsAtDeadline ==
    \A c \in Calls :
       (session[c].timer # "none" /\ session[c].utterance = "speaking")
          => /\ session[c].mediaRecorder = "inactive"
                => /\ now >= session[c].armedAt + Len(session[c].text) * 100
                   /\ session[c].stoppedBy = "timeout"
                   /\ session[c].stops = 1
             /\ session[c].promise # "pending"
                => /\ session[c].settledAt >= session[c].armedAt + Len(session[c].text) * 100
                   /\ session[c].mediaRecorder = "inactive"
                   /\ session[c].stops = 1

C4_Witness ==
    \E c \in Calls :
       /\ session[c].utterance = "speaking"
       /\ session[c].timer = "fired"
       /\ session[c].promise = "resolved"
       /\ Len(session[c].text) = 2
       /\ session[c].settledAt >= 200
       /\ session[c].stops = 1

\* C5: running the stop logic twice is idempotent in both orders: once the
\* completion handler and the timeout have both run, the recorder was
\* stopped once, the audio context was closed once, the result was produced
\* once and no error was raised.
C5_DoubleStopIsNoOp ==
    \A c \in Calls :
       (session[c].utterance = "ended" /\ session[c].timer = "fired")
          => /\ session[c].stopCalls = 1
             /\ session[c].closeCalls = 1
             /\ session[c].stops = 1
             /\ ~session[c].uncaught

\* C6: the tiers are attempted in the order Provider A, Provider B, capture
\* pipeline and never concurrently: a tier starts only after every earlier
\* tier has settled as a failure (or Provider B was skipped), and no tier
\* starts after one has yielded a result.
C6_StrictTierOrder ==
    \A c \in Calls :
       /\ call[c].order \in {<<>>, <<"A">>, <<"A", "B">>, <<"A", "capture">>,
                             <<"A", "B", "capture">>}
       /\ call[c].tierB \in {"pending", "ok", "soft", "hard"}
             => call[c].tierA \in {"soft", "hard"}
       /\ session[c].started
             => /\ call[c].tierA \in {"soft", "hard"}
                /\ call[c].tierB \in {"skipped", "soft", "hard"}
       /\ call[c].tierA = "pending" => call[c].order = <<"A">>
       /\ call[c].tierB = "pending" => call[c].order = <<"A", "B">>
       /\ call[c].tierA = "ok" => (call[c].order = <<"A">> /\ ~session[c].started)
       /\ call[c].tierB = "ok" => (call[c].order = <<"A", "B">> /\ ~session[c].started)
       /\ (call[c].tierB = "skipped") = (call[c].order = <<"A", "capture">>)

C6_Witness ==
    \E c \in Calls :
       /\ call[c].order = <<"A", "B", "capture">>
       /\ call[c].tierA = "soft"
       /\ call[c].tierB = "hard"
       /\ session[c].promise = "resolved"

\* C7: an exception or rejection raised while calling Provider A or
\* Provider B, or while reading or parsing the response, fails that tier
\* only: the next tier is attempted and the error never reaches the caller.
CaptureErrors ==
    {Err("Speech synthesis not supported in this browser"),
     Err("FileReader error")}

C7_ProviderErrorsAbsorbed ==
    \A c \in Calls :
       /\ call[c].tierA = "hard"
             => /\ call[c].pc # "threw"
                /\ call[c].tierB # "none"
                /\ call[c].tierB = "skipped" => session[c].started
                /\ ProviderBConfigured(supabaseUrl, supabaseAnonKey) = "yes"
                      => call[c].order \in {<<"A", "B">>, <<"A", "B", "capture">>}
       /\ call[c].tierB = "hard"
             => /\ call[c].pc = "delegated"
                /\ session[c].started
       /\ CallState(c) = "rejected" => CallValue(c) \in CaptureErrors

C7_Witness ==
    \E c \in Calls :
       /\ call[c].tierA = "hard"
       /\ call[c].tierB = "hard"
       /\ session[c].started
       /\ CallState(c) = "resolved"

\* C8: the capture pipeline rejects only when on-device synthesis is absent;
\* in that case nothing was started (no audio context, no recorder, no
\* utterance, no timeout), and in every other case it does not reject.
C8_RejectsOnlyWithoutCapability ==
    \A c \in Calls :
       session[c].promise = "rejected"
          => /\ ~speechSynthesis
             /\ session[c].audioContext = "none"
             /\ session[c].mediaRecorder = "none"
             /\ session[c].utterance = "none"
             /\ session[c].timer = "none"

\* C9: listVoices never fails and never returns an empty list: the built-in
\* catalog of 4 entries when the remote call throws or has a missing or
\* empty voices list, the remote list when that is non-empty.
C9_ListVoicesNeverEmpty ==
    /\ voicesCall.promise # "rejected"
    /\ voicesCall.pc = "returned"
          => /\ voicesCall.promise = "resolved"
             /\ Len(voicesCall.result) > 0
             /\ (remoteVoices.kind = "reject" \/ ~remoteVoices.hasData
                   \/ ~remoteVoices.hasVoices \/ remoteVoices.voices = <<>>)
                   => /\ voicesCall.result = getMockVoices
                      /\ Len(voicesCall.result) = 4
             /\ (remoteVoices.kind = "response" /\ remoteVoices.hasData
                   /\ remoteVoices.hasVoices /\ remoteVoices.voices # <<>>)
                   => voicesCall.result = remoteVoices.voices

C9_Witness ==
    /\ voicesCall.pc = "returned"
    /\ remoteVoices.kind = "response"
    /\ remoteVoices.hasVoices
    /\ remoteVoices.voices = <<>>
    /\ Len(voicesCall.result) = 4

\* C10: without a speech-recognition capability recognizeSpeech fails with
\* the unsupported-environment error in the call itself, before a
\* recognition session is constructed, configured or started.
C10_UnsupportedRejectsFirst ==
    (speechRecognitionApi = "none" /\ recognition.pc # "idle")
       => /\ recognition.promise = "rejected"
          /\ recognition.value = UnsupportedRecognition
          /\ ~recognition.created
          /\ ~recognition.started
          /\ recognition.lang = ""
          /\ recognition.events = <<>>

C10_Witness ==
    /\ speechRecognitionApi = "none"
    /\ recognition.pc = "settled"
    /\ recognition.promise = "rejected"


\* C11: in every capture session that passed the capability check, whatever
\* the interleaving of the completion event and the timeout, exactly one of
\* the two handlers performs the stop: the recorder is stopped exactly once
\* and the pending result is resolved exactly once.
C11_StoppedAndResolvedOnce ==
    \A c \in Calls :
       session[c].audioContext # "none"
          => /\ session[c].stops <= 1
             /\ session[c].stops = 1 => session[c].stoppedBy \in {"onend", "timeout"}
             /\ session[c].reader \in {"done", "error"}
                   => /\ session[c].stops = 1
                      /\ session[c].promise = "resolved"

\* C12: a capture session that opened an audio context and started a
\* recorder has released both (recorder stopped, context closed) once its
\* result has settled, whether the completion event or the timeout stopped it.
C12_ReleasedOnEveryExit ==
    \A c \in Calls :
       /\ (session[c].audioContext # "none" /\ session[c].promise # "pending")
             => /\ session[c].mediaRecorder = "inactive"
                /\ session[c].audioContext = "closed"
       /\ session[c].mediaRecorder = "inactive" => session[c].audioContext = "closed"

C12_Witness ==
    \E c \in Calls :
       /\ session[c].stoppedBy = "timeout"
       /\ session[c].utterance = "speaking"
       /\ session[c].promise = "resolved"
       /\ session[c].mediaRecorder = "inactive"
       /\ session[c].audioContext = "closed"


\* C13: a soft failure of Provider A or Provider B (an answer without a
\* truthy success flag or without a payload) is handled like a hard failure
\* (throw or rejection) of that provider: what is attempted next, in which
\* order, and the state it starts from depend on the configuration only, not
\* on the kind of failure.
C13_SoftLikeHard ==
    [][\A c \in Calls :
         /\ (call[c].pc = "awaitA" /\ call'[c].tierA \in {"soft", "hard"})
               => IF ProviderBConfigured(supabaseUrl, supabaseAnonKey) = "yes"
                  THEN /\ call'[c].pc = "awaitFetch"
                       /\ call'[c].tierB = "pending"
                       /\ call'[c].order = <<"A", "B">>
                       /\ session'[c] = session[c]
                  ELSE /\ call'[c].pc = "delegated"
                       /\ call'[c].tierB = "skipped"
                       /\ call'[c].order = <<"A", "capture">>
                       /\ session'[c] = SynthesizeWithBrowser(call[c].text)
         /\ (call[c].pc \in {"awaitFetch", "awaitJson"}
               /\ call'[c].tierB \in {"soft", "hard"})
               => /\ call'[c].pc = "delegated"
                  /\ call'[c].order = <<"A", "B", "capture">>
                  /\ call'[c].captureCalls = 1
                  /\ call'[c].result = Undefined
                  /\ session'[c] = SynthesizeWithBrowser(call[c].text)
      ]_vars

C13_Witness ==
    \E c \in Calls :
       /\ call[c].tierA = "hard"
       /\ call[c].tierB = "soft"
       /\ call[c].order = <<"A", "B", "capture">>
       /\ session[c].mediaRecorder = "recording"

\* C14: Provider B is called exactly when Provider A has failed (hard or
\* soft) and both the endpoint and the credential are present and neither
\* holds the placeholder marker; then it is called once, before the capture
\* pipeline, and if it succeeds the capture pipeline is not invoked.
Present(x) == x.t = "string" /\ x.v # <<>>

C14_Configured ==
    /\ Present(supabaseUrl)
    /\ Present(supabaseAnonKey)
    /\ ~Includes(supabaseUrl.v, Placeholder)
    /\ ~Includes(supabaseAnonKey.v, Placeholder)

C14_ProviderBCalls(c) == Len(SelectSeq(call[c].order, LAMBDA t : t = "B"))

C14_ProviderBExactlyWhenConfigured ==
    \A c \in Calls :
       LET bCalled == call[c].tierB \in {"pending", "ok", "soft", "hard"}
       IN  /\ bCalled <=> (call[c].tierA \in {"soft", "hard"} /\ C14_Configured)
           /\ C14_ProviderBCalls(c) = IF bCalled THEN 1 ELSE 0
           /\ (bCalled /\ call[c].captureCalls > 0)
                 => call[c].order = <<"A", "B", "capture">>
           /\ call[c].tierB = "ok"
                 => /\ call[c].captureCalls = 0
                    /\ ~session[c].started
                    /\ CallState(c) = "resolved"

C14_Witness ==
    \E c \in Calls :
       /\ call[c].tierA = "soft"
       /\ call[c].tierB = "ok"
       /\ call[c].order = <<"A", "B">>
       /\ call[c].captureCalls = 0

\* C15: for both providers a successful answer is normalized to a resource
\* with exactly one MIME prefix: a raw payload is wrapped with
\* 'data:audio/mpeg;base64,' and a payload that already is a 'data:'
\* resource is returned unchanged, whichever provider answered.
C15_Normalized(audio) ==
    IF StartsWith(audio.v, DataScheme) THEN audio ELSE Str(MpegPrefix \o audio.v)

C15_OnePrefix ==
    \A c \in Calls :
       /\ call[c].tierA = "ok" => CallValue(c) = C15_Normalized(call[c].respA)
       /\ call[c].tierB = "ok" => CallValue(c) = C15_Normalized(call[c].respB)


\* C16: two capture sessions running at once share no mutable state: an
\* event of one session changes only that session (its recorder, context,
\* fragments, timeout and result), and a result is built from the fragments
\* of its own recorder only.
NonEmpty(frag) == Len(frag) > 0

C16_OwnFragments(c) ==
    \A i \in 1..Len(session[c].chunks) :
       \E k \in 1..Len(session[c].emitted) : session[c].chunks[i] = FragmentBytes(c, k)

C16_OneSessionPerEvent ==
    \A c \in Calls :
       session'[c] # session[c]
          => \A d \in Calls \ {c} : session'[d] = session[d] /\ call'[d] = call[d]

C16_SessionsIndependent ==
    [][/\ C16_OneSessionPerEvent
       /\ \A c \in Calls :
             /\ C16_OwnFragments(c)'
             /\ session'[c].promise = "resolved"
                   => session'[c].value =
                         ReadAsDataURL(Concat(SelectSeq(session'[c].emitted, NonEmpty)))
      ]_vars

C16_Witness ==
    /\ session[1].promise = "resolved"
    /\ session[1].stoppedBy = "timeout"
    /\ Len(session[1].chunks) > 0
    /\ session[2].mediaRecorder = "recording"
    /\ Len(session[2].chunks) > 0
    /\ session[2].utterance = "speaking"


\* C17: the audio artifact a capture session resolves with is built from
\* exactly the non-empty fragments its recorder emitted, concatenated in
\* their order of arrival, none lost, duplicated or reordered, whether the
\* completion event or the timeout stopped the recorder.
C17_EmittedBytes(c) == Concat(SelectSeq(session[c].emitted, NonEmpty))

C17_ResultFromFragments ==
    \A c \in Calls :
       /\ session[c].chunks = SelectSeq(session[c].emitted, NonEmpty)
       /\ session[c].reader # "none" => session[c].blob = C17_EmittedBytes(c)
       /\ session[c].promise = "resolved"
             => /\ session[c].value = Str(WavPrefix \o Base64(C17_EmittedBytes(c)))
                /\ session[c].stoppedBy \in {"onend", "timeout"}

C17_Witness ==
    \E c \in Calls :
       /\ session[c].promise = "resolved"
       /\ session[c].stoppedBy = "timeout"
       /\ Len(session[c].emitted) = 2
       /\ Len(session[c].chunks) = 2
       /\ session[c].chunks[1] # session[c].chunks[2]

\* C18: the outcome of recognizeSpeech is fixed by the first session event:
\* a result resolves with the first alternative of the first result, an
\* error rejects with a recognition error carrying the error code; later
\* events do not change it.
C18_FirstEventDecides ==
    /\ recognition.events # <<>>
          => LET first == recognition.events[1]
             IN  IF first.type = "result"
                 THEN /\ recognition.promise = "resolved"
                      /\ recognition.value = Str(<<first.results[1][1]>>)
                 ELSE /\ recognition.promise = "rejected"
                      /\ recognition.value = RecognitionError(first.error)
    /\ (recognition.started /\ recognition.events = <<>>)
          => recognition.promise = "pending"

C18_Witness ==
    /\ Len(recognition.events) = 2
    /\ recognition.events[1].type = "result"
    /\ Len(recognition.events[1].results[1]) = 2
    /\ recognition.events[1].results[1][1] # recognition.events[1].results[1][2]
    /\ recognition.events[2].type = "error"
    /\ recognition.promise = "resolved"

\* C19: in a capture session the recorder is started before the utterance
\* is spoken and the timeout is armed in every session that speaks: the
\* utterance starts under a recording recorder, and a session with a spoken
\* utterance has a pending or fired timeout.
C19_RecorderFirstTimeoutArmed ==
    \A c \in Calls :
       session[c].utterance # "none"
          => /\ session[c].recorderAtSpeak = "recording"
             /\ session[c].timer \in {"armed", "fired"}
             /\ session[c].delay = Len(session[c].text) * 100

C19_Witness ==
    \E c \in Calls :
       /\ session[c].utterance = "speaking"
       /\ session[c].mediaRecorder = "recording"
       /\ session[c].timer = "armed"
       /\ session[c].chunks = <<>>

\* C20: in one synthesizeSpeech call the capture pipeline is started at most
\* once, although it has two call sites: a failure of the capture pipeline
\* never starts a second capture session.
C20_CaptureStartedAtMostOnce ==
    \A c \in Calls :
       /\ call[c].captureCalls <= 1
       /\ Len(SelectSeq(call[c].order, LAMBDA t : t = "capture")) = call[c].captureCalls
       /\ session[c].started <=> call[c].captureCalls = 1
       /\ CallState(c) = "rejected" => call[c].captureCalls = 1

C20_Witness ==
    \E c \in Calls :
       /\ call[c].outerCatch
       /\ call[c].captureCalls = 1
       /\ session[c].promise = "rejected"

====
